---- MODULE Spec2Model ----
(***************************************************************************)
(* xv: the hex reader (src/src/hex_reader.rs) and the open-file dialog     *)
(* (src/src/open_file_dialog.rs) as a state machine.                       *)
(*                                                                         *)
(* u64 quantities (line_width, window_pos, file length, offsets) are kept  *)
(* at their full width: a u64 is four 16-bit limbs, least significant      *)
(* first, so that lengths and offsets on both sides of 2^32 are ordinary   *)
(* values of the model.  usize/u16 quantities that stay small (window      *)
(* size, group, buffer lengths, loop counters) are plain naturals.         *)
(***************************************************************************)
EXTENDS Integers, Sequences, FiniteSets, TLC

(***************************************************************************)
(* u64 arithmetic                                                          *)
(***************************************************************************)
Limb == 2^16

U64(n) == <<n % Limb, (n \div Limb) % Limb, 0, 0>>

\* 2^32, the first length that needs large addresses
TwoTo32 == <<0, 0, 1, 0>>

\* the value of a u64 that fits 31 bits
Small(a) == a[2] * Limb + a[1]

IsSmall(a) == a[3] = 0 /\ a[4] = 0 /\ a[2] < 2^15

U64Add(a, b) ==
    LET s1 == a[1] + b[1]
        s2 == a[2] + b[2] + (s1 \div Limb)
        s3 == a[3] + b[3] + (s2 \div Limb)
        s4 == a[4] + b[4] + (s3 \div Limb)
    IN  <<s1 % Limb, s2 % Limb, s3 % Limb, s4 % Limb>>

U64Sub(a, b) ==
    LET d1 == a[1] - b[1]
        d2 == a[2] - b[2] - (IF d1 < 0 THEN 1 ELSE 0)
        d3 == a[3] - b[3] - (IF d2 < 0 THEN 1 ELSE 0)
        d4 == a[4] - b[4] - (IF d3 < 0 THEN 1 ELSE 0)
    IN  <<d1 % Limb, d2 % Limb, d3 % Limb, d4 % Limb>>

U64Less(a, b) ==
    \/ a[4] < b[4]
    \/ a[4] = b[4] /\ a[3] < b[3]
    \/ a[4] = b[4] /\ a[3] = b[3] /\ a[2] < b[2]
    \/ a[4] = b[4] /\ a[3] = b[3] /\ a[2] = b[2] /\ a[1] < b[1]

U64Le(a, b) == ~U64Less(b, a)

\* the 32-bit product of two limbs, as <<low limb, high limb>>
LimbMul(p, q) ==
    LET lo == (p % 256) * q
        hi == (p \div 256) * q
        t  == lo + (hi % 256) * 256
    IN  <<t % Limb, (hi \div 256) + (t \div Limb)>>

U64MulLimb(a, m) ==
    LET p1 == LimbMul(a[1], m)
        p2 == LimbMul(a[2], m)
        p3 == LimbMul(a[3], m)
        p4 == LimbMul(a[4], m)
        t2 == p2[1] + p1[2]
        t3 == p3[1] + p2[2] + (t2 \div Limb)
        t4 == p4[1] + p3[2] + (t3 \div Limb)
    IN  <<p1[1], t2 % Limb, t3 % Limb, t4 % Limb>>

U64Mul(a, b) ==
    IF a[2] = 0 /\ a[3] = 0 /\ a[4] = 0 /\ a[1] < 2^15 /\ b[2] = 0 /\ b[3] = 0 /\ b[4] = 0
        THEN U64(a[1] * b[1])
    ELSE IF b[2] = 0 /\ b[3] = 0 /\ b[4] = 0 THEN U64MulLimb(a, b[1])
    ELSE IF a[2] = 0 /\ a[3] = 0 /\ a[4] = 0 THEN U64MulLimb(b, a[1])
    ELSE
    LET r1 == U64MulLimb(a, b[1])
        r2 == U64MulLimb(a, b[2])
        r3 == U64MulLimb(a, b[3])
        r4 == U64MulLimb(a, b[4])
    IN  U64Add(U64Add(r1, <<0, r2[1], r2[2], r2[3]>>),
               U64Add(<<0, 0, r3[1], r3[2]>>, <<0, 0, 0, r4[1]>>))

U64Bit(a, k) == (a[(k \div 16) + 1] \div (2^(k % 16))) % 2

\* binary long division, from bit k down to bit 0: <<quotient, remainder>>
RECURSIVE U64DivStep(_, _, _, _, _)
U64DivStep(a, b, k, q, r) ==
    LET r2 == U64Add(U64Add(r, r), U64(U64Bit(a, k)))
        ge == U64Le(b, r2)
        q2 == U64Add(U64Add(q, q), U64(IF ge THEN 1 ELSE 0))
        r3 == IF ge THEN U64Sub(r2, b) ELSE r2
    IN  IF q2 = q2 /\ r3 = r3 /\ k = 0 THEN <<q2, r3>>
        ELSE U64DivStep(a, b, k - 1, q2, r3)

\* long division by a divisor d of at most 2^15, a limb at a time from the
\* most significant: <<quotient, remainder>>
U64ShortDiv(a, d) ==
    LET t4 == a[4]
        t3 == (t4 % d) * Limb + a[3]
        t2 == (t3 % d) * Limb + a[2]
        t1 == (t2 % d) * Limb + a[1]
    IN  <<<<t1 \div d, t2 \div d, t3 \div d, t4 \div d>>, U64(t1 % d)>>

U64DivRem(a, b) ==
    IF b[2] = 0 /\ b[3] = 0 /\ b[4] = 0 /\ b[1] <= 2^15 THEN U64ShortDiv(a, b[1])
    ELSE U64DivStep(a, b, 63, U64(0), U64(0))

\* a / b and a % b for b > 0
U64Div(a, b) == U64DivRem(a, b)[1]

U64Rem(a, b) == U64DivRem(a, b)[2]

Min(a, b) == IF a < b THEN a ELSE b

(***************************************************************************)
(* Bounds of the model                                                     *)
(***************************************************************************)
MaxFileLen == 3
MaxWidth == 3
MaxHeight == 2
MaxGroup == 2
MaxDepth == 2       \* the depth of the directory tree under the default directory

\* file lengths: short files, and one on each side of the 32-bit threshold
Lengths ==
    {U64(n) : n \in 0..MaxFileLen}
        \cup {U64Sub(TwoTo32, U64(1)), U64Add(TwoTo32, U64(MaxFileLen))}

Columns == {U64(0), U64(1)}
Rows == {U64(0), U64(1), TwoTo32}
LineWidths == {U64(0), U64(1), U64(2)}
Groups == 0..MaxGroup
Widths == 0..MaxWidth
Heights == 0..MaxHeight

(***************************************************************************)
(* State                                                                   *)
(***************************************************************************)
VARIABLES
    length,       \* reader: the file's length as of open (u64)
    line_width,   \* u64
    group,        \* u16
    window_pos,   \* <<x, y>>, u64 each
    window_size,  \* <<w, h>>, u16 each
    capture,      \* Vec<u8>
    vis_mode,     \* VisualMode
    fresh,        \* history: capture() returned Ok and no field was changed since
    call,         \* the last operation called on the reader
    events,       \* the events that call handed to its visitor, in order
    ret,          \* what that call returned (a u64), or <<>>
    fault,        \* "none", or the panic that ended the program
    dialog,          \* the "Open file" layer is on the screen
    current_directory, \* XvState: the current directory, a path
    listing,         \* the file system: what listing each directory answers
    dir_selector,    \* the values of the items of "dir_selector"
    file_selector,   \* the values of the items of "file_selector"
    selection,       \* the item "file_selector" has selected, or "none"
    current_dir,     \* the content of the text view "current_dir"
    hex_view,        \* the path of the file whose reader "hex_view" holds
    ops              \* the calls the last dialog handler made, in order

readerfields == <<length, line_width, group, window_pos, window_size, capture,
                  vis_mode, fresh>>

hexvars == <<readerfields, call, events, ret, fault>>

dialogvars == <<dialog, current_directory, listing, dir_selector, file_selector,
                selection, current_dir, hex_view, ops>>

vars == <<hexvars, dialogvars>>

VisualModes == {"Unicode", "Ascii", "Off"}

(***************************************************************************)
(* The file system under the dialog: a chain of directories "d" below the  *)
(* default directory, a path being the sequence of its components.         *)
(***************************************************************************)
RECURSIVE Chain(_)
Chain(n) == IF n = 0 THEN <<>> ELSE Append(Chain(n - 1), "d")

Dirs == {Chain(n) : n \in 0..MaxDepth}

\* the directory reset_current_directory() goes to
DefaultDir == <<>>

\* the text view before its first set_content
NoText == <<"">>

\* what list_directory() answers: Ok, Err, or Ok with an entry that is Err
Listings == {"Ok", "Err", "BadEntry"}

Results == {"Ok", "Err"}

SubDirs(d) == IF Len(d) < MaxDepth THEN {"d"} ELSE {}

FilesIn(d) ==
    IF Len(d) = 0 THEN {"f", "g"} ELSE IF Len(d) < MaxDepth THEN {"f"} ELSE {}

\* the length of the file a reader opens
FileLength(path) ==
    IF path[Len(path)] = "f" THEN U64(MaxFileLen) ELSE U64(0)

(***************************************************************************)
(* The tiled file reader (byte_reader.rs): its windowed read               *)
(***************************************************************************)
\* the bytes of the files of hex_reader.rs's tests, repeated to any length
FileBytes == <<48, 49, 50, 51, 52, 53, 54, 55, 56, 57, 97, 98, 99, 100, 101, 102>>

ByteAt(off) == FileBytes[(off[1] % 16) + 1]

use_large_addresses == U64Le(TwoTo32, length)

\* the bytes of [start, start + w) clipped to [0, len)
RowBytes(len, start, w) ==
    IF ~U64Less(start, len) THEN <<>>
    ELSE LET room == U64Sub(len, start)
             n == IF U64Less(room, U64(w)) THEN Small(room) ELSE w
         IN  [j \in 1..n |-> ByteAt(U64Add(start, U64(j - 1)))]

\* rows r, r+1, ... (n of them), appended to out; stops at the first row that
\* is empty after clipping, and after a row that was clipped
RECURSIVE get_window_rows(_, _, _, _, _, _, _)
get_window_rows(len, x, r, w, n, lw, out) ==
    LET start == U64Add(U64Mul(r, lw), x)
        row == RowBytes(len, start, w)
    IN  IF n = 0 \/ row = <<>> THEN out
        ELSE IF Len(row) < w THEN out \o row
        ELSE get_window_rows(len, x, U64Add(r, U64(1)), w, n - 1, lw, out \o row)

get_window(len, x, y, w, h, lw, out) == get_window_rows(len, x, y, w, h, lw, out)

(***************************************************************************)
(* HexReader                                                               *)
(***************************************************************************)
Init ==
    /\ length \in Lengths
    /\ line_width = U64(16)
    /\ group = 8
    /\ window_pos = <<U64(0), U64(0)>>
    /\ window_size = <<16, 32>>
    /\ capture = <<>>
    /\ vis_mode = "Unicode"
    /\ fresh = FALSE
    /\ call = "none"
    /\ events = <<>>
    /\ ret = <<>>
    /\ fault = "none"
    /\ dialog = FALSE
    /\ current_directory = DefaultDir
    /\ listing = [d \in Dirs |-> "Ok"]
    /\ dir_selector = {}
    /\ file_selector = {}
    /\ selection = "none"
    /\ current_dir = NoText
    /\ hex_view = <<"f">>
    /\ ops = <<>>

Running == fault = "none"

\* an operation with no visitor and no value to return
Returned == call' = "none" /\ events' = <<>> /\ ret' = <<>> /\ fault' = "none"

SetLineWidth ==
    /\ Running
    /\ UNCHANGED dialogvars
    /\ \E lw \in LineWidths : line_width' = lw /\ fresh' = (fresh /\ lw = line_width)
    /\ Returned
    /\ UNCHANGED <<length, group, window_pos, window_size, capture, vis_mode>>

SetGroup ==
    /\ Running
    /\ UNCHANGED dialogvars
    /\ \E g \in Groups : group' = g /\ fresh' = (fresh /\ g = group)
    /\ Returned
    /\ UNCHANGED <<length, line_width, window_pos, window_size, capture, vis_mode>>

\* window_pos.0 = x
SetWindowColumn ==
    /\ Running
    /\ UNCHANGED dialogvars
    /\ \E x \in Columns : window_pos' = <<x, window_pos[2]>> /\ fresh' = (fresh /\ x = window_pos[1])
    /\ Returned
    /\ UNCHANGED <<length, line_width, group, window_size, capture, vis_mode>>

\* window_pos.1 = y
SetWindowRow ==
    /\ Running
    /\ UNCHANGED dialogvars
    /\ \E y \in Rows : window_pos' = <<window_pos[1], y>> /\ fresh' = (fresh /\ y = window_pos[2])
    /\ Returned
    /\ UNCHANGED <<length, line_width, group, window_size, capture, vis_mode>>

\* window_size.0 = w
SetWindowWidth ==
    /\ Running
    /\ UNCHANGED dialogvars
    /\ \E w \in Widths : window_size' = <<w, window_size[2]>> /\ fresh' = (fresh /\ w = window_size[1])
    /\ Returned
    /\ UNCHANGED <<length, line_width, group, window_pos, capture, vis_mode>>

\* window_size.1 = h
SetWindowHeight ==
    /\ Running
    /\ UNCHANGED dialogvars
    /\ \E h \in Heights : window_size' = <<window_size[1], h>> /\ fresh' = (fresh /\ h = window_size[2])
    /\ Returned
    /\ UNCHANGED <<length, line_width, group, window_pos, capture, vis_mode>>

set_visual_mode ==
    /\ Running
    /\ UNCHANGED dialogvars
    /\ \E mode \in VisualModes : vis_mode' = mode /\ fresh' = (fresh /\ mode = vis_mode)
    /\ Returned
    /\ UNCHANGED <<length, line_width, group, window_pos, window_size, capture>>

\* capture() without the clear of line 84
NotCleared(buf) == buf

\* Vec::clear
Cleared(buf) == <<>>

\* the buffer after capture() when the reader reads the first `rows` rows
Captured(rows) ==
    get_window(length, window_pos[1], window_pos[2], window_size[1], rows,
               line_width, Cleared(capture))

\* the model captures windows of at most MaxWidth x MaxHeight
Capturable == window_size[1] <= MaxWidth /\ window_size[2] <= MaxHeight

\* capture() returning Ok
capture_ok ==
    /\ Running
    /\ UNCHANGED dialogvars
    /\ Capturable
    /\ capture' = Captured(window_size[2])
    /\ fresh' = TRUE
    /\ Returned
    /\ UNCHANGED <<length, line_width, group, window_pos, window_size, vis_mode>>

\* capture() returning Err: the read of row k fails, the rows before it are
\* in the buffer
capture_err ==
    /\ Running
    /\ UNCHANGED dialogvars
    /\ Capturable
    /\ \E k \in 0..(window_size[2] - 1) : capture' = Captured(k)
    /\ fresh' = FALSE
    /\ Returned
    /\ UNCHANGED <<length, line_width, group, window_pos, window_size, vis_mode>>

get_row_offsets_width == IF use_large_addresses THEN 16 + 2 ELSE 8 + 2

\* a division that answers 0 for a zero divisor
lines_in_file_checked(len, lw) ==
    IF lw = U64(0) THEN <<U64(0), "none">> ELSE <<U64Div(len, lw), "none">>

\* line 95: length / line_width, as <<value, fault>>
lines_in_file(len, lw) ==
    IF lw = U64(0) THEN <<<<>>, "attempt to divide by zero">>
    ELSE <<U64Div(len, lw), "none">>

get_lines_in_file ==
    /\ Running
    /\ UNCHANGED dialogvars
    /\ call' = "get_lines_in_file"
    /\ events' = <<>>
    /\ ret' = lines_in_file(length, line_width)[1]
    /\ fault' = lines_in_file(length, line_width)[2]
    /\ UNCHANGED <<length, line_width, group, window_pos, window_size, capture,
                   vis_mode, fresh>>

(***************************************************************************)
(* Formatting: format!("0x{:016X}", n) and format!("0x{:08X}", n).  A      *)
(* string is the sequence of its characters' ASCII codes.                  *)
(***************************************************************************)
\* the k-th hex digit of n, k = 0 the least significant
Nibble(n, k) == (n[(k \div 4) + 1] \div (16^(k % 4))) % 16

\* the number of hex digits of n without leading zeros, at least 1
HexLen(n, k) ==
    CHOOSE d \in 1..k :
        /\ d = 1 \/ Nibble(n, d - 1) # 0
        /\ \A j \in (d + 1)..k : Nibble(n, j - 1) = 0

\* '0'..'9', 'A'..'F'
UpperHexChar(d) == IF d < 10 THEN 48 + d ELSE 55 + d

\* {:0<width>X}: the digits of n, zero-padded on the left to at least `width`
FormatUpperHex(n, width) ==
    LET digits == HexLen(n, 16)
        len == IF digits < width THEN width ELSE digits
    IN  [j \in 1..len |-> IF len - j < digits THEN UpperHexChar(Nibble(n, len - j))
                          ELSE 48]

FormatOffset(large, offset) ==
    <<48, 120>> \o (IF large THEN FormatUpperHex(offset, 16) ELSE FormatUpperHex(offset, 8))

(***************************************************************************)
(* The traversals                                                          *)
(***************************************************************************)
Event(e, v) == [e |-> e, v |-> v]

\* the division of line 102 without the round-up of lines 103-105
capture_height_floor(len, w) == len \div w

\* lines 102-105: capture.len() / w, rounded up
capture_height(len, w) ==
    LET ch == len \div w
    IN  IF ch * w < len THEN ch + 1 ELSE ch

\* lines 101, 110, 115: base_offset + i * line_width
row_offset(y, lw, i) == U64Add(U64Mul(y, lw), U64Mul(U64(i), lw))

\* as many rows as the window has
height_of_window(h, ch) == h

\* line 106: h.min(capture_height)
height_of(h, ch) == Min(h, ch)

visit_row_offsets_events(buf, w, h, y, lw, large) ==
    LET height == height_of(h, capture_height(Len(buf), w))
    IN  [i \in 1..height |-> Event("offset", FormatOffset(large, row_offset(y, lw, i - 1)))]
            \o <<Event("end", <<>>)>>

\* what visit_row_offsets hands to its visitor: <<events, fault>>
RowOffsetsOutcome ==
    IF window_size[1] = 0 THEN <<<<>>, "attempt to divide by zero">>
    ELSE <<visit_row_offsets_events(capture, window_size[1], window_size[2],
                                    window_pos[2], line_width, use_large_addresses),
           "none">>

visit_row_offsets ==
    /\ Running
    /\ UNCHANGED dialogvars
    /\ call' = "visit_row_offsets"
    /\ ret' = <<>>
    /\ events' = RowOffsetsOutcome[1]
    /\ fault' = RowOffsetsOutcome[2]
    /\ UNCHANGED <<length, line_width, group, window_pos, window_size, capture,
                   vis_mode, fresh>>

\* a traversal that takes the bytes out of the buffer
drained(buf) == <<>>

\* &self, self.capture.as_slice(): a traversal borrows the buffer
as_slice(buf) == buf

\* the group test before the line test
after_byte_group_first(i, line_cap, x, g) ==
    IF g = 0 THEN "fault"
    ELSE IF U64Rem(U64Add(x, U64(i)), U64(g)) = U64(0) THEN "group"
    ELSE IF i = line_cap THEN "next_line"
    ELSE "none"

\* the group counted from the window's left edge
after_byte_relative(i, line_cap, x, g) ==
    IF i = line_cap THEN "next_line"
    ELSE IF g = 0 THEN "fault"
    ELSE IF i % g = 0 THEN "group"
    ELSE "none"

\* lines 133-138 (and 155-160): what follows the i-th byte of a row
after_byte(i, line_cap, x, g) ==
    IF i = line_cap THEN "next_line"
    ELSE IF g = 0 THEN "fault"
    ELSE IF U64Rem(U64Add(x, U64(i)), U64(g)) = U64(0) THEN "group"
    ELSE "none"

\* the loop over the buffer from its k-th byte, i bytes into the current row:
\* <<events, fault>>
RECURSIVE walk(_, _, _, _, _, _, _, _)
walk(tag, buf, k, i, line_cap, x, g, out) ==
    IF k > Len(buf) THEN <<Append(out, Event("end", <<>>)), "none">>
    ELSE LET seen == Append(out, Event(tag, <<buf[k]>>))
             then == after_byte(i + 1, line_cap, x, g)
         IN  IF then = "fault"
                 THEN <<seen, "attempt to calculate the remainder with a divisor of zero">>
             ELSE IF then = "next_line"
                 THEN walk(tag, buf, k + 1, 0, line_cap, x, g,
                           Append(seen, Event("next_line", <<>>)))
             ELSE IF then = "group"
                 THEN walk(tag, buf, k + 1, i + 1, line_cap, x, g,
                           Append(seen, Event("group", <<>>)))
             ELSE walk(tag, buf, k + 1, i + 1, line_cap, x, g, seen)

visit_hex_events(buf, w, x, g) == walk("byte", buf, 1, 0, w, x, g, <<>>)

visit_visual_events(buf, w, x, g) == walk("visual_element", buf, 1, 0, w, x, g, <<>>)

HexOutcome == visit_hex_events(as_slice(capture), window_size[1], window_pos[1], group)

VisualOutcome == visit_visual_events(as_slice(capture), window_size[1], window_pos[1], group)

visit_hex ==
    /\ Running
    /\ UNCHANGED dialogvars
    /\ call' = "visit_hex"
    /\ ret' = <<>>
    /\ events' = HexOutcome[1]
    /\ fault' = HexOutcome[2]
    /\ capture' = as_slice(capture)
    /\ UNCHANGED <<length, line_width, group, window_pos, window_size, vis_mode, fresh>>

visit_visual ==
    /\ Running
    /\ UNCHANGED dialogvars
    /\ call' = "visit_visual"
    /\ ret' = <<>>
    /\ events' = VisualOutcome[1]
    /\ fault' = VisualOutcome[2]
    /\ capture' = as_slice(capture)
    /\ UNCHANGED <<length, line_width, group, window_pos, window_size, vis_mode, fresh>>

(***************************************************************************)
(* The "Open file" dialog.  A handler's view of the program is a record:   *)
(* the current directory, the two selectors, the text view and the log of  *)
(* the calls made so far.                                                  *)
(***************************************************************************)
Op(o, a) == [op |-> o, arg |-> a]

Logged(st, o, a) == [st EXCEPT !.ops = Append(@, Op(o, a))]

Handler ==
    [dir |-> current_directory, dir_selector |-> dir_selector,
     file_selector |-> file_selector, current_dir |-> current_dir, ops |-> <<>>]

\* XvState::change_directory: dir is "", ".." or the name of a subdirectory
Target(from, dir) ==
    IF dir = "" THEN from
    ELSE IF dir = ".." THEN (IF from = <<>> THEN from ELSE SubSeq(from, 1, Len(from) - 1))
    ELSE Append(from, dir)

change_directory(st, dir) ==
    Logged([st EXCEPT !.dir = Target(@, dir)], "change_directory", Target(st.dir, dir))

set_directory(st, d) == Logged([st EXCEPT !.dir = d], "set_directory", d)

reset_current_directory(st) ==
    Logged([st EXCEPT !.dir = DefaultDir], "reset_current_directory", DefaultDir)

\* s.show_error(error): the error of the directory the handler is in
show_error(st) == Logged(st, "show_error", st.dir)

\* lines 71-100; result "Panic" is the unwrap of an entry that is an Err
fill_selectors(st) ==
    LET cleared == Logged([st EXCEPT !.dir_selector = {".."}, !.file_selector = {}],
                          "list_directory", st.dir)
    IN  IF listing[st.dir] = "Err" THEN [st |-> cleared, result |-> "Err"]
        ELSE IF listing[st.dir] = "BadEntry" THEN [st |-> cleared, result |-> "Panic"]
        ELSE [st |-> [cleared EXCEPT !.dir_selector = {".."} \cup SubDirs(st.dir),
                                     !.file_selector = FilesIn(st.dir),
                                     !.current_dir = st.dir],
              result |-> "Ok"]

\* lines 61-66: reset_current_directory()? and the third listing
last_resort(st, reset) ==
    IF reset = "Err"
    THEN [st |-> show_error(Logged(st, "reset_current_directory", DefaultDir)),
          result |-> "Err"]
    ELSE LET third == fill_selectors(reset_current_directory(st))
         IN  IF third.result = "Err"
             THEN [st |-> show_error(third.st), result |-> "Err"]
             ELSE third

\* a fallback that goes to the default directory at once
fallback_to_default(st, saved, reset) == last_resort(st, reset)

\* lines 56-67: back to the directory saved at line 46
fallback(st, saved, reset) ==
    LET second == fill_selectors(set_directory(st, saved))
    IN  IF second.result = "Err"
        THEN last_resort(show_error(second.st), reset)
        ELSE second

\* lines 42-69
select_directory_steps(st, dir, reset) ==
    LET saved_current_dir == st.dir
        first == fill_selectors(change_directory(st, dir))
    IN  IF first.result = "Err"
        THEN fallback(show_error(first.st), saved_current_dir, reset)
        ELSE first

\* SelectView::selection of a selector whose focus is on its first item
FirstOf(items) ==
    IF items = {} THEN "none" ELSE IF "f" \in items THEN "f" ELSE CHOOSE i \in items : TRUE

\* the program after a handler that ran select_directory
Selected(out, name, layer) ==
    /\ call' = name
    /\ events' = <<>>
    /\ ret' = <<>>
    /\ fault' = (IF out.result = "Panic"
                 THEN "called Result::unwrap() on an Err value" ELSE "none")
    /\ dialog' = layer
    /\ current_directory' = out.st.dir
    /\ dir_selector' = out.st.dir_selector
    /\ file_selector' = out.st.file_selector
    /\ selection' = FirstOf(out.st.file_selector)
    /\ current_dir' = out.st.current_dir
    /\ ops' = out.st.ops
    /\ UNCHANGED <<readerfields, listing, hex_view>>

\* lines 12-40: the layer with its empty views, then select_directory(s, "")
open_file_dialog ==
    /\ Running
    /\ ~dialog
    /\ \E reset \in Results :
          Selected(select_directory_steps(
                       Logged([Handler EXCEPT !.dir_selector = {}, !.file_selector = {},
                                              !.current_dir = NoText],
                              "add_layer", <<>>),
                       "", reset),
                   "open_file_dialog", TRUE)

\* on_submit of "dir_selector"
select_directory ==
    /\ Running
    /\ dialog
    /\ \E dir \in dir_selector, reset \in Results :
          Selected(select_directory_steps(Handler, dir, reset), "select_directory", TRUE)

\* the user moves the selection of "file_selector"
select_file ==
    /\ Running
    /\ dialog
    /\ \E f \in file_selector : selection' = f
    /\ Returned
    /\ ops' = <<>>
    /\ UNCHANGED <<readerfields, dialog, current_directory, listing, dir_selector,
                   file_selector, current_dir, hex_view>>

\* the views of a layer that was popped
Popped ==
    /\ dialog' = FALSE
    /\ dir_selector' = {}
    /\ file_selector' = {}
    /\ selection' = "none"
    /\ current_dir' = NoText

\* Key::Esc, and the "Cancel" button
cancel ==
    /\ Running
    /\ dialog
    /\ Popped
    /\ Returned
    /\ ops' = <<Op("pop_layer", <<>>)>>
    /\ UNCHANGED <<readerfields, current_directory, listing, hex_view>>

\* XvState::resolve_path
resolve_path(dir, file_name) == Append(dir, file_name)

\* a handler that switches the view whatever open_reader answered
opened_always(log, result, path) == Append(log, Op("switch_reader", path))

\* lines 115-123
opened(log, result, path) ==
    IF result = "Ok" THEN Append(log, Op("switch_reader", path))
    ELSE Append(log, Op("show_error", path))

\* lines 102-126, the log of its calls and of what open_reader answered
do_open_file_steps(file, result) ==
    LET popped == <<Op("pop_layer", <<>>)>>
    IN  IF file = "none" THEN popped
        ELSE LET current_file == hex_view
                 path == resolve_path(current_directory, file)
             IN  opened(popped \o <<Op("get_reader_state", current_file),
                                    Op("resolve_path", path),
                                    Op("close_reader", current_file),
                                    Op("open_reader", path),
                                    Op(result, path)>>,
                        result, path)

Switched(log) == log # <<>> /\ log[Len(log)].op = "switch_reader"

\* the "Open" button, and Key::Enter
do_open_file ==
    /\ Running
    /\ dialog
    /\ Popped
    /\ events' = <<>>
    /\ ret' = <<>>
    /\ fault' = "none"
    /\ \E result \in (IF selection = "none" THEN {"Ok"} ELSE Results) :
          LET log == do_open_file_steps(selection, result)
          IN  /\ ops' = log
              /\ call' = "do_open_file"
              /\ IF Switched(log)
                 THEN /\ hex_view' = log[Len(log)].arg
                      /\ length' = FileLength(log[Len(log)].arg)
                      /\ fresh' = FALSE
                 ELSE UNCHANGED <<hex_view, length, fresh>>
    /\ UNCHANGED <<line_width, group, window_pos, window_size, capture, vis_mode,
                   current_directory, listing>>

\* the file system changes under the program
touch ==
    /\ Running
    /\ \E d \in Dirs, l \in Listings : listing' = [listing EXCEPT ![d] = l]
    /\ Returned
    /\ UNCHANGED <<readerfields, dialog, current_directory, dir_selector, file_selector,
                   selection, current_dir, hex_view, ops>>

Next ==
    \/ SetLineWidth
    \/ SetGroup
    \/ SetWindowColumn
    \/ SetWindowRow
    \/ SetWindowWidth
    \/ SetWindowHeight
    \/ set_visual_mode
    \/ capture_ok
    \/ capture_err
    \/ get_lines_in_file
    \/ visit_row_offsets
    \/ visit_hex
    \/ visit_visual
    \/ open_file_dialog
    \/ select_directory
    \/ select_file
    \/ cancel
    \/ do_open_file
    \/ touch

Spec == Init /\ [][Next]_vars

\* the rows of a window and their addresses
NextAddress ==
    \/ SetLineWidth
    \/ SetWindowRow
    \/ SetWindowWidth
    \/ SetWindowHeight
    \/ capture_ok
    \/ capture_err
    \/ get_lines_in_file
    \/ visit_row_offsets

SpecAddress == Init /\ [][NextAddress]_vars

\* the window and what capture() reads through it
NextCapture ==
    \/ SetLineWidth
    \/ SetWindowColumn
    \/ SetWindowRow
    \/ SetWindowWidth
    \/ SetWindowHeight
    \/ capture_ok
    \/ capture_err

SpecCapture == Init /\ [][NextCapture]_vars

\* the traversals of a capture, over an empty and a short file
RenderLengths == {U64(0), U64(MaxFileLen)}

NextRender ==
    \/ SetLineWidth
    \/ SetGroup
    \/ SetWindowColumn
    \/ SetWindowWidth
    \/ SetWindowHeight
    \/ capture_ok
    \/ visit_row_offsets
    \/ visit_hex
    \/ visit_visual

\* the traversals leave the reader alone: every field, and the visual mode
NextFrame ==
    \/ SetGroup
    \/ SetWindowWidth
    \/ SetWindowHeight
    \/ set_visual_mode
    \/ capture_ok
    \/ visit_row_offsets
    \/ visit_hex
    \/ visit_visual

InitRender == Init /\ length \in RenderLengths

SpecRender == InitRender /\ [][NextRender]_vars

SpecFrame == InitRender /\ [][NextFrame]_vars

\* the dialog, over one file
NextDialog ==
    \/ open_file_dialog
    \/ select_directory
    \/ select_file
    \/ cancel
    \/ do_open_file
    \/ touch

InitDialog == Init /\ length = U64(0)

SpecDialog == InitDialog /\ [][NextDialog]_vars

(***************************************************************************)
(* Reading an event sequence                                               *)
(***************************************************************************)
Count(evs, tag) == Cardinality({p \in 1..Len(evs) : evs[p].e = tag})

IsByte(ev) == ev.e \in {"byte", "visual_element"}

\* the position in evs of its k-th byte event
BytePos(evs, k) ==
    CHOOSE p \in 1..Len(evs) :
        IsByte(evs[p]) /\ Cardinality({q \in 1..p : IsByte(evs[q])}) = k

Bytes(evs) == Cardinality({p \in 1..Len(evs) : IsByte(evs[p])})

\* the tag of the event after position p, "" at the end
After(evs, p) == IF p < Len(evs) THEN evs[p + 1].e ELSE ""

UpperHexDigits == (48..57) \cup (65..70)

HexValue(c) == IF c < 58 THEN c - 48 ELSE c - 55

\* the k-th digit from the right of the first n digits, k = 0 the last
DigitAt(chars, n, k) == IF k < n THEN HexValue(chars[n - k]) ELSE 0

\* the number a string of at most 16 hex digits denotes, as four limbs
ParseHex(chars, n) ==
    [j \in 1..4 |-> DigitAt(chars, n, 4 * j - 4) + 16 * DigitAt(chars, n, 4 * j - 3)
                      + 256 * DigitAt(chars, n, 4 * j - 2)
                      + 4096 * DigitAt(chars, n, 4 * j - 1)]

\* the digits of an offset string, after its "0x"
Digits(text) == SubSeq(text, 3, Len(text))

WellFormed(text) ==
    /\ Len(text) >= 3
    /\ text[1] = 48 /\ text[2] = 120
    /\ \A j \in 3..Len(text) : text[j] \in UpperHexDigits

Address(text) == ParseHex(Digits(text), Len(text) - 2)

CeilDiv(a, b) == (a + b - 1) \div b

\* the address of the i-th row of the window, i from 0
RowAddress(i) == U64Add(U64Mul(window_pos[2], line_width), U64Mul(U64(i), line_width))

(***************************************************************************)
(* C1: for every buffer, window size with w > 0, window position and line  *)
(* width, visit_row_offsets emits min(h, ceil(len(buffer)/w)) offsets and  *)
(* then one end event; the i-th offset is window_pos.y * line_width +      *)
(* i * line_width, so with a positive line width each offset is the        *)
(* previous one plus line_width.                                           *)
(***************************************************************************)
C1_RowOffsets ==
    (call = "visit_row_offsets" /\ window_size[1] > 0) =>
        LET n == Min(window_size[2], CeilDiv(Len(capture), window_size[1]))
        IN  /\ fault = "none"
            /\ Len(events) = n + 1
            /\ events[n + 1].e = "end"
            /\ \A i \in 1..n :
                  /\ events[i].e = "offset"
                  /\ WellFormed(events[i].v)
                  /\ Address(events[i].v) = RowAddress(i - 1)
            /\ \A i \in 1..(n - 1) :
                  line_width # U64(0) =>
                      /\ U64Less(Address(events[i].v), Address(events[i + 1].v))
                      /\ U64Sub(Address(events[i + 1].v), Address(events[i].v)) = line_width

\* a stale buffer of full rows and a partial one, below the first row
C1_Witness ==
    /\ call = "visit_row_offsets"
    /\ fault = "none"
    /\ window_size[1] > 0
    /\ Len(capture) % window_size[1] # 0
    /\ Count(events, "offset") >= 2
    /\ window_pos[2] # U64(0)
    /\ line_width # U64(0)

(***************************************************************************)
(* C4: after a successful capture() the buffer is the concatenation, row   *)
(* by row from row y, of the file bytes [r*line_width + x, r*line_width +  *)
(* x + w) clipped to the file, whatever it held before: w*h bytes when the *)
(* window lies within the file, else the full rows before the first row    *)
(* that reaches past the end of the file plus that row's bytes in the      *)
(* file, and nothing after it.                                             *)
(***************************************************************************)
\* where row r of the window (r from 0) starts in the file
RowStart(r) ==
    U64Add(U64Mul(U64Add(window_pos[2], U64(r)), line_width), window_pos[1])

RowInFile(r) == U64Le(U64Add(RowStart(r), U64(window_size[1])), length)

\* the rows before the first row that is not wholly in the file
FullRows ==
    Cardinality({r \in 0..(window_size[2] - 1) : \A q \in 0..r : RowInFile(q)})

\* the bytes in the file of the first row that is not wholly in it
PartialRow ==
    IF FullRows < window_size[2] /\ U64Less(RowStart(FullRows), length)
    THEN Small(U64Sub(length, RowStart(FullRows)))
    ELSE 0

C4_Capture ==
    fresh =>
        /\ Len(capture) = FullRows * window_size[1] + PartialRow
        /\ Len(capture) <= window_size[1] * window_size[2]
        /\ FullRows = window_size[2] => Len(capture) = window_size[1] * window_size[2]
        /\ \A j \in 1..Len(capture) :
              capture[j] = ByteAt(U64Add(RowStart((j - 1) \div window_size[1]),
                                         U64((j - 1) % window_size[1])))

\* a window of a full row and a row cut by the end of the file
C4_Witness ==
    /\ fresh
    /\ call = "none"
    /\ FullRows >= 1
    /\ PartialRow > 0
    /\ window_pos[1] # U64(0)

(***************************************************************************)
(* C5 as stated: every offset string is "0x" and the zero-padded uppercase *)
(* hex address, of exactly 8 digits without large addresses and exactly 16 *)
(* with them, so that its length is get_row_offsets_width().               *)
(***************************************************************************)
C5_Original ==
    call = "visit_row_offsets" =>
        \A i \in 1..Len(events) :
            events[i].e = "offset" =>
                /\ WellFormed(events[i].v)
                /\ Len(events[i].v) = get_row_offsets_width
                /\ Len(events[i].v) = IF use_large_addresses THEN 18 ELSE 10

(***************************************************************************)
(* C5, what holds: every offset string is "0x" and the uppercase hex      *)
(* address,                                                                *)
(* zero-padded to 16 digits with large addresses and to at least 8 digits  *)
(* without: exactly 8 (the string is get_row_offsets_width() long) when    *)
(* the address is below 2^32, as it is when no field changed since a       *)
(* successful capture, and as many digits as the address has otherwise.    *)
(* The digits denote the same address in both modes.                       *)
(***************************************************************************)
C5_OffsetFormat ==
    call = "visit_row_offsets" =>
        \A i \in 1..Len(events) :
            events[i].e = "offset" =>
                LET text == events[i].v
                    address == RowAddress(i - 1)
                IN  /\ WellFormed(text)
                    /\ Address(text) = address
                    /\ use_large_addresses => Len(text) = 18
                    /\ (~use_large_addresses /\ U64Less(address, TwoTo32)) => Len(text) = 10
                    /\ (~use_large_addresses /\ U64Le(TwoTo32, address)) =>
                           Len(text) > 10 /\ text[3] # 48
                    /\ U64Less(address, TwoTo32) => Len(text) = get_row_offsets_width
                    /\ use_large_addresses => Len(text) = get_row_offsets_width
                    /\ fresh => Len(text) = get_row_offsets_width

\* a long file, a row at or above 2^32: sixteen digits, the ninth from the right not 0
C5_Witness ==
    /\ call = "visit_row_offsets"
    /\ use_large_addresses
    /\ fresh
    /\ \E i \in 1..Len(events) :
          /\ events[i].e = "offset"
          /\ Len(events[i].v) = 18
          /\ U64Le(TwoTo32, Address(events[i].v))

(***************************************************************************)
(* C7: nothing rejects line_width == 0: it can be set, capture() and       *)
(* visit_row_offsets run with it, and get_lines_in_file then divides by    *)
(* zero, a fault and not an error value; with a positive line_width        *)
(* get_lines_in_file returns floor(length / line_width) without fault.     *)
(***************************************************************************)
C7_LineWidthZero ==
    /\ call = "get_lines_in_file" =>
          /\ (fault # "none") <=> (line_width = U64(0))
          /\ fault # "none" => ret = <<>>
          /\ line_width # U64(0) =>
                /\ U64Le(U64Mul(ret, line_width), length)
                /\ U64Less(U64Sub(length, U64Mul(ret, line_width)), line_width)
    /\ (line_width = U64(0) /\ call # "get_lines_in_file") =>
          (fault # "none" => (call = "visit_row_offsets" /\ window_size[1] = 0))
    /\ (line_width = U64(0) /\ call = "visit_row_offsets" /\ window_size[1] > 0) =>
          /\ fault = "none"
          /\ \A i \in 1..(Len(events) - 1) : Address(events[i].v) = U64(0)

\* line_width == 0 went through capture(), and get_lines_in_file faulted
C7_Witness ==
    /\ call = "get_lines_in_file"
    /\ line_width = U64(0)
    /\ fault = "attempt to divide by zero"
    /\ fresh
    /\ capture # <<>>

(***************************************************************************)
(* The hex and visual traversals                                           *)
(***************************************************************************)
Walked == call \in {"visit_hex", "visit_visual"}

\* the place in its row of the k-th byte of the buffer, from 1
InRow(k, w) == IF w > 0 THEN ((k - 1) % w) + 1 ELSE k

LastOfRow(k, w) == w > 0 /\ k % w = 0

GroupAfter(evs, k) == After(evs, BytePos(evs, k)) = "group"

(***************************************************************************)
(* C2: in visit_hex and visit_visual a next_line follows the w-th, 2w-th,  *)
(* ... byte and no other, and no byte is followed by both a next_line and  *)
(* a group: where both tests hold, only next_line is emitted.              *)
(***************************************************************************)
C2_LineBreaks ==
    Walked =>
        LET w == window_size[1]
            n == Bytes(events)
        IN  /\ n <= Len(capture)
            /\ fault = "none" => n = Len(capture)
            /\ \A k \in 1..n :
                  LET p == BytePos(events, k)
                  IN  /\ events[p].v = <<capture[k]>>
                      /\ (After(events, p) = "next_line") <=> LastOfRow(k, w)
                      /\ After(events, p) = "next_line" => After(events, p + 1) # "group"
                      /\ After(events, p) = "group" => After(events, p + 1) # "next_line"
            /\ \A p \in 1..Len(events) :
                  events[p].e \in {"next_line", "group"} => (p > 1 /\ IsByte(events[p - 1]))
            /\ Count(events, "next_line") = (IF w > 0 THEN n \div w ELSE 0)

\* two rows whose last byte also falls on a group boundary
C2_Witness ==
    /\ call = "visit_hex"
    /\ fault = "none"
    /\ group > 1
    /\ window_size[1] > 1
    /\ Count(events, "next_line") >= 2
    /\ Count(events, "group") >= 1
    /\ (Small(window_pos[1]) + window_size[1]) % group = 0

(***************************************************************************)
(* C3: after a byte that is not the last of its row a group follows        *)
(* exactly when (window_pos.x + its place in the row) mod group == 0; so   *)
(* in two windows over the same file that differ in window_pos.x only, a   *)
(* byte of the same row and absolute column is followed by a group in both *)
(* or in neither, unless it ends the row in one of them.                   *)
(***************************************************************************)
\* the events of the same traversal had the window been captured at column x2
EventsAtColumn(x2) ==
    walk("byte",
         get_window(length, x2, window_pos[2], window_size[1], window_size[2],
                    line_width, <<>>),
         1, 0, window_size[1], x2, group, <<>>)[1]

C3_AbsoluteGrouping ==
    Walked =>
        LET w == window_size[1]
            x == Small(window_pos[1])
            n == Bytes(events)
        IN  /\ \A k \in 1..n :
                  /\ (group > 0 /\ ~LastOfRow(k, w)) =>
                        (GroupAfter(events, k) <=> ((x + InRow(k, w)) % group = 0))
                  /\ LastOfRow(k, w) => ~GroupAfter(events, k)
                  /\ group = 0 => ~GroupAfter(events, k)
            /\ (fresh /\ group > 0 /\ w > 0) =>
                  \A x2 \in Columns :
                      LET other == EventsAtColumn(x2)
                      IN  \A k1 \in 1..n, k2 \in 1..Bytes(other) :
                              ( /\ (k1 - 1) \div w = (k2 - 1) \div w
                                /\ x + InRow(k1, w) = Small(x2) + InRow(k2, w)
                                /\ ~LastOfRow(k1, w)
                                /\ ~LastOfRow(k2, w) )
                              => (GroupAfter(events, k1) <=> GroupAfter(other, k2))

\* a window one column to the right, whose first byte closes a group that
\* the window at column 0 closes after its second byte
C3_Witness ==
    /\ call = "visit_hex"
    /\ fresh
    /\ group = 2
    /\ window_pos[1] = U64(1)
    /\ window_size[1] >= 3
    /\ fault = "none"
    /\ Bytes(events) >= 2
    /\ GroupAfter(events, 1)
    /\ Bytes(EventsAtColumn(U64(0))) >= 2
    /\ GroupAfter(EventsAtColumn(U64(0)), 2)

(***************************************************************************)
(* C8 as stated: right after a successful capture() with w > 0, the        *)
(* offsets of visit_row_offsets are as many as the rows of visit_hex: its  *)
(* next_line events, plus one if the buffer ends in a partial row.         *)
(***************************************************************************)
\* the rows visit_hex shows
HexRows(evs) ==
    Count(evs, "next_line") + (IF Len(capture) % window_size[1] # 0 THEN 1 ELSE 0)

Visited == call \in {"visit_row_offsets", "visit_hex", "visit_visual"}

\* what the traversal named c emits from the present buffer and fields
Outcome(c) ==
    IF c = "visit_row_offsets" THEN RowOffsetsOutcome
    ELSE IF c = "visit_hex" THEN HexOutcome
    ELSE VisualOutcome

Untouched ==
    UNCHANGED <<length, line_width, group, window_pos, window_size, vis_mode, capture>>

EndsWithEnd == events # <<>> /\ events[Len(events)].e = "end" /\ Count(events, "end") = 1

C6_Original ==
    [][Visited' => (Untouched /\ <<events', fault'>> = Outcome(call') /\ EndsWithEnd')]_vars

(***************************************************************************)
(* C6, amended: the same, but a traversal ends with its one end event only *)
(* when it does not fault; visit_row_offsets faults when w == 0, visit_hex *)
(* and visit_visual when group == 0 at the first byte that does not end a  *)
(* row, and a traversal that faults emits no end event.                    *)
(***************************************************************************)
Faults ==
    IF call = "visit_row_offsets" THEN window_size[1] = 0
    ELSE group = 0 /\ \E k \in 1..Len(capture) : ~LastOfRow(k, window_size[1])

C6_Frame ==
    [][Visited' =>
          /\ Untouched
          /\ <<events', fault'>> = Outcome(call')
          /\ (fault # "none")' <=> Faults'
          /\ (fault = "none")' => EndsWithEnd'
          /\ (fault # "none")' => (Count(events, "end") = 0)']_vars

\* a visual traversal of two rows that ends without a fault
C6_Witness ==
    /\ call = "visit_visual"
    /\ fault = "none"
    /\ vis_mode = "Ascii"
    /\ Len(capture) >= 2
    /\ Count(events, "group") >= 1
    /\ Count(events, "next_line") >= 1

(***************************************************************************)
(* Reading the log of a dialog handler                                     *)
(***************************************************************************)
Calls(log, o) == Cardinality({p \in 1..Len(log) : log[p].op = o})

\* the place of the k-th call of o in the log, 0 when there is none
CallPos(log, o, k) ==
    IF Calls(log, o) < k THEN 0
    ELSE CHOOSE p \in 1..Len(log) :
            log[p].op = o /\ Cardinality({q \in 1..p : log[q].op = o}) = k

\* the arguments of the calls of o, in order
RECURSIVE ArgsFrom(_, _, _)
ArgsFrom(log, o, p) ==
    IF p > Len(log) THEN <<>>
    ELSE (IF log[p].op = o THEN <<log[p].arg>> ELSE <<>>) \o ArgsFrom(log, o, p + 1)

Args(log, o) == ArgsFrom(log, o, 1)

(***************************************************************************)
(* C9: select_directory(dir) changes to dir and lists it; if that listing  *)
(* fails it shows the error, restores the directory that was current       *)
(* before the call and lists it; only if that fails too it shows a second  *)
(* error, resets to the default directory and lists it, and shows a third  *)
(* error if that fails.  So when the listing of dir fails and the previous *)
(* directory is listable, the current directory after the call is the one  *)
(* before it and exactly one error is shown; and when the first listing    *)
(* succeeds no error is shown and no fallback step runs.                   *)
(***************************************************************************)
C9_Fallback ==
    [][(call' \in {"select_directory", "open_file_dialog"}) =>
          LET log       == ops'
              saved     == current_directory
              requested == Args(log, "change_directory")[1]
              lists     == Args(log, "list_directory")
              errors    == Calls(log, "show_error")
              restores  == Calls(log, "set_directory")
              resets    == Calls(log, "reset_current_directory")
          IN  /\ Calls(log, "change_directory") = 1
              /\ lists # <<>> /\ lists[1] = requested
              /\ CallPos(log, "change_directory", 1) < CallPos(log, "list_directory", 1)
              /\ listing[requested] = "Ok" =>
                    /\ errors = 0 /\ restores = 0 /\ resets = 0
                    /\ lists = <<requested>>
                    /\ current_directory' = requested
                    /\ fault' = "none"
              /\ (listing[requested] = "Err" /\ listing[saved] = "Ok") =>
                    /\ errors = 1 /\ restores = 1 /\ resets = 0
                    /\ Args(log, "show_error") = <<requested>>
                    /\ Args(log, "set_directory") = <<saved>>
                    /\ lists = <<requested, saved>>
                    /\ CallPos(log, "list_directory", 1) < CallPos(log, "show_error", 1)
                    /\ CallPos(log, "show_error", 1) < CallPos(log, "set_directory", 1)
                    /\ CallPos(log, "set_directory", 1) < CallPos(log, "list_directory", 2)
                    /\ current_directory' = saved
                    /\ current_dir' = saved
                    /\ fault' = "none"
              /\ (listing[requested] = "Err" /\ listing[saved] = "Err") =>
                    /\ restores = 1 /\ resets = 1
                    /\ errors \in {2, 3}
                    /\ CallPos(log, "list_directory", 2) < CallPos(log, "show_error", 2)
                    /\ CallPos(log, "show_error", 2) < CallPos(log, "reset_current_directory", 1)
                    /\ Len(lists) = 3 => lists[3] = DefaultDir
                    /\ (errors = 3) <=> (Len(lists) = 2 \/ listing[DefaultDir] = "Err")
              /\ restores = 1 <=> listing[requested] = "Err"
              /\ resets <= 1 /\ errors <= 3]_vars

\* a subdirectory that cannot be listed, under a directory that can
C9_Witness ==
    /\ call = "select_directory"
    /\ fault = "none"
    /\ Calls(ops, "show_error") = 1
    /\ Calls(ops, "set_directory") = 1
    /\ Args(ops, "change_directory") = <<Chain(1)>>
    /\ current_directory = DefaultDir
    /\ current_dir = DefaultDir
    /\ "d" \in dir_selector

(***************************************************************************)
(* C10: do_open_file always pops the dialog layer; with a file selected it *)
(* closes the reader state of the file the hex view shows before it opens  *)
(* the selected path, and calls switch_reader only if that open succeeded; *)
(* when the open fails the error is shown once and the view's reader is    *)
(* not replaced; with no file selected nothing is closed, opened or        *)
(* switched.                                                               *)
(***************************************************************************)
C10_OpenFile ==
    [][(call' = "do_open_file") =>
          LET log  == ops'
              path == Append(current_directory, selection)
          IN  /\ log[1] = Op("pop_layer", <<>>)
              /\ Calls(log, "pop_layer") = 1
              /\ ~dialog'
              /\ selection = "none" =>
                    /\ log = <<Op("pop_layer", <<>>)>>
                    /\ hex_view' = hex_view
              /\ selection # "none" =>
                    /\ Args(log, "close_reader") = <<hex_view>>
                    /\ Args(log, "open_reader") = <<path>>
                    /\ CallPos(log, "pop_layer", 1) < CallPos(log, "close_reader", 1)
                    /\ CallPos(log, "close_reader", 1) < CallPos(log, "open_reader", 1)
                    /\ Calls(log, "Ok") + Calls(log, "Err") = 1
                    /\ CallPos(log, "open_reader", 1) + 1 = Len(log) - 1
                    /\ log[Len(log) - 1].op \in Results
                    /\ Calls(log, "switch_reader") = Calls(log, "Ok")
                    /\ Calls(log, "show_error") = Calls(log, "Err")
                    /\ log[Len(log)].op \in {"switch_reader", "show_error"}
                    /\ log[Len(log)].arg = path
                    /\ Calls(log, "switch_reader") = 1 => hex_view' = path
                    /\ Calls(log, "show_error") = 1 => hex_view' = hex_view]_vars

\* an open that failed, of a file other than the one shown
C10_Witness ==
    /\ call = "do_open_file"
    /\ ~dialog
    /\ Calls(ops, "close_reader") = 1
    /\ Calls(ops, "Err") = 1
    /\ Calls(ops, "show_error") = 1
    /\ Calls(ops, "switch_reader") = 0
    /\ Args(ops, "open_reader") # <<hex_view>>
====
